---------------------------- MODULE Spec2Model ----------------------------
(***************************************************************************)
(* A model of checkm/hmmer.py: the parallel model extractor                *)
(* (HMMERModelExtractor), the tabular parser (HMMERParser, HmmerHitTBL,    *)
(* HmmerHitDOM) and the command wrapper (HMMERRunner).                      *)
(*                                                                         *)
(* Text is modelled as a sequence of one-character strings, a file as a    *)
(* sequence of lines, a process as a program counter.                      *)
(***************************************************************************)
EXTENDS Integers, Sequences, FiniteSets, TLC

VARIABLES
    \* ---- HMMERModelExtractor.extract and its processes
    installed,          \* whether 'hmmsearch -h' exits 0 on this machine
    modelAccIds,        \* argument of extract
    totalThreads,       \* self.totalThreads
    bReportProgress,    \* argument of extract
    level,              \* self.logger.getEffectiveLevel()
    mainPc,             \* position of the process that called extract
    mi,                 \* loop index of the start / join loops of extract
    workerQueue,        \* mp.Queue of (modelAcc, fetchFilename)
    writerQueue,        \* mp.Queue of (modelAcc, fetchFilename)
    calcProc,           \* position of each worker process
    cur,                \* the task each worker holds
    writeProc,          \* position of the writer process
    wcur,               \* the task the writer holds
    numModelsExtracted, \* the writer's counter
    tmp,                \* the temporary files: path -> content, or Absent
    outFile,            \* content of ouputModelFile
    stdout,             \* what the writer wrote to sys.stdout
    logged,             \* number of logger.info records of extract
    \* ---- HMMERParser and its caller
    pmode,              \* self.mode of the parser
    handle,             \* the lines of the file behind self.handle
    pos,                \* the line the handle reads next
    prevPos,            \* pos when the last next() was called
    stopLine,           \* the line that ended the last next(), 0: end of file
    ncalls,             \* number of next() calls made
    pop,                \* the caller's last operation
    cvalues,            \* the argument of the last direct construction
    hit,                \* outcome of the last next() or construction
    printed,            \* outcome of the last str(hit)
    \* ---- HMMERRunner and its caller
    rmode,              \* self.mode of the runner, "unbuilt" before __init__
    cmds,               \* the commands handed to os.system, in order
    rop,                \* the caller's last operation on the runner
    rerr                \* how that operation ended: "ok" or the exception

evars == << installed, modelAccIds, totalThreads, bReportProgress, level,
            mainPc, mi, workerQueue, writerQueue, calcProc, cur, writeProc,
            wcur, numModelsExtracted, tmp, outFile, stdout, logged >>

pvars == << pmode, handle, pos, prevPos, stopLine, ncalls, pop, cvalues, hit,
            printed >>

rvars == << rmode, cmds, rop, rerr >>

vars == << evars, pvars, rvars >>

---------------------------------------------------------------------------
(* Bounds of the model *)

MaxModels == 2
MaxThreads == 2
MaxLines == 2
MaxCalls == 3
MaxCmds == 4

(* Program constants *)

\* logging.INFO; logging.DEBUG is 10 below it and logging.WARNING 10 above
INFO == 20
Levels == { INFO - 10, INFO, INFO + 10 }

None == "<None>"
\* A path of the file system: no file, or a file and its lines.
Absent == [ exists |-> FALSE, lines |-> << >> ]
File(ls) == [ exists |-> TRUE, lines |-> ls ]

\* The stop sentinel (None, None); path 0 is no path.
Sentinel == << None, 0 >>

\* The model database: the lines hmmfetch prints for each key it holds.
\* A key the database lacks makes hmmfetch exit nonzero and print nothing.
ModelDb ==
    [ PF00001 |-> << ">MODEL:PF00001" >>,
      PF00002 |-> << ">MODEL:PF00002" >> ]

ModelIds == { "PF00001", "PF00002", "PF09999" }

\* What was in the output file before the call.
OldContents == { << ">OLD" >> }

---------------------------------------------------------------------------
(* Text: a string is a sequence of one-character strings *)

WS == { " ", "\t", "\n" }

Digits == << "0", "1", "2", "3", "4", "5", "6", "7", "8", "9" >>

IsDigit(c) == \E i \in 1..Len(Digits) : Digits[i] = c

DigitVal(c) == (CHOOSE i \in 1..Len(Digits) : Digits[i] = c) - 1

\* str.rstrip(): drop the trailing whitespace
rstrip(s) ==
    LET keep == { i \in 1..Len(s) : s[i] \notin WS } IN
    IF keep = {} THEN << >>
    ELSE SubSeq(s, 1, CHOOSE i \in keep : \A j \in keep : j <= i)

\* a finite set of numbers, in increasing order
RECURSIVE sorted(_)
sorted(S) ==
    IF S = {} THEN << >>
    ELSE LET m == CHOOSE x \in S : \A y \in S : x <= y
         IN << m >> \o sorted(S \ { m })

\* re.split(r'\s+', s): the pieces between the runs of whitespace; a string
\* that starts (ends) with whitespace gives an empty first (last) piece.
re_split(s) ==
    LET first == sorted({ i \in 1..Len(s) :
                    s[i] \notin WS /\ (i = 1 \/ s[i - 1] \in WS) })
        last == sorted({ i \in 1..Len(s) :
                    s[i] \notin WS /\ (i = Len(s) \/ s[i + 1] \in WS) })
        words == [ k \in 1..Len(first) |-> SubSeq(s, first[k], last[k]) ]
    IN IF s = << >> THEN << << >> >>
       ELSE (IF s[1] \in WS THEN << << >> >> ELSE << >>)
              \o words
              \o (IF s[Len(s)] \in WS THEN << << >> >> ELSE << >>)

\* sep.join(pieces)
RECURSIVE join(_, _)
join(sep, pieces) ==
    IF pieces = << >> THEN << >>
    ELSE IF Len(pieces) = 1 THEN pieces[1]
    ELSE pieces[1] \o sep \o join(sep, Tail(pieces))

---------------------------------------------------------------------------
(* Numbers.  float() and int() of a token over the characters the model     *)
(* uses: a sign, digits and a point.  A token holding any other character  *)
(* is no number (the tokens of the model hold no exponent, no "inf", no    *)
(* "nan").  A float is kept as its exact decimal value: sign, integer part *)
(* and the fraction digits without the trailing zeros; the tokens are      *)
(* short enough for str() to print every digit and no exponent.            *)

RECURSIVE digitsVal(_)
digitsVal(ds) ==
    IF ds = << >> THEN 0
    ELSE 10 * digitsVal(SubSeq(ds, 1, Len(ds) - 1)) + DigitVal(ds[Len(ds)])

RECURSIVE natStr(_)
natStr(n) ==
    IF n < 10 THEN << Digits[n + 1] >>
    ELSE natStr(n \div 10) \o << Digits[(n % 10) + 1] >>

RECURSIVE stripZeros(_)
stripZeros(ds) ==
    IF ds = << >> THEN << >>
    ELSE IF ds[Len(ds)] = "0" THEN stripZeros(SubSeq(ds, 1, Len(ds) - 1))
    ELSE ds

AllDigits(ds) == \A i \in 1..Len(ds) : IsDigit(ds[i])

HasSign(tok) == tok # << >> /\ tok[1] \in { "-", "+" }

Unsigned(tok) == IF HasSign(tok) THEN Tail(tok) ELSE tok

PointsOf(ds) == { i \in 1..Len(ds) : ds[i] = "." }

ValueError == [ ok |-> FALSE ]

\* int(tok)
parseInt(tok) ==
    LET ds == Unsigned(tok) IN
    IF ds # << >> /\ AllDigits(ds)
      THEN [ ok |-> TRUE,
             val |-> IF tok[1] = "-" THEN 0 - digitsVal(ds) ELSE digitsVal(ds) ]
      ELSE ValueError

\* str(n) of an int
intStr(n) == IF n < 0 THEN << "-" >> \o natStr(0 - n) ELSE natStr(n)

\* float(tok)
parseFloat(tok) ==
    LET ds == Unsigned(tok)
        pts == PointsOf(ds)
        pt == IF pts = {} THEN Len(ds) + 1 ELSE CHOOSE i \in pts : TRUE
        ip == SubSeq(ds, 1, pt - 1)
        fp == SubSeq(ds, pt + 1, Len(ds))
    IN IF /\ Cardinality(pts) <= 1
          /\ AllDigits(ip) /\ AllDigits(fp)
          /\ Len(ip) + Len(fp) >= 1
         THEN [ ok |-> TRUE,
                val |-> [ neg |-> tok[1] = "-",
                          ip |-> digitsVal(ip),
                          fp |-> stripZeros(fp) ] ]
         ELSE ValueError

\* str(x) of a float
floatStr(x) ==
    (IF x.neg THEN << "-" >> ELSE << >>)
        \o natStr(x.ip) \o << "." >>
        \o (IF x.fp = << >> THEN << "0" >> ELSE x.fp)

---------------------------------------------------------------------------
(* HmmerHitTBL and HmmerHitDOM *)

TBLFields == 19
DOMFields == 23

TBLAttrs ==
    << "target_name", "target_accession", "query_name", "query_accession",
       "full_e_value", "full_score", "full_bias", "best_e_value",
       "best_score", "best_bias", "exp", "reg", "clu", "ov", "env", "dom",
       "rep", "inc", "target_description" >>

\* how __init__ converts values[i]: kept, kept unless '-', float(), int()
TBLTypes ==
    << "str", "str", "str", "acc",
       "float", "float", "float", "float", "float", "float", "float",
       "int", "int", "int", "int", "int", "int", "int", "str" >>

DOMAttrs ==
    << "target_name", "target_accession", "target_length", "query_name",
       "query_accession", "query_length", "full_e_value", "full_score",
       "full_bias", "dom", "ndom", "c_evalue", "i_evalue", "dom_score",
       "dom_bias", "hmm_from", "hmm_to", "ali_from", "ali_to", "env_from",
       "env_to", "acc", "target_description" >>

DOMTypes ==
    << "str", "str", "int", "str", "acc", "int",
       "float", "float", "float", "int", "int",
       "float", "float", "float", "float",
       "int", "int", "int", "int", "int", "int", "float", "str" >>

AttrsOf(cls) == IF cls = "HmmerHitTBL" THEN TBLAttrs ELSE DOMAttrs
TypesOf(cls) == IF cls = "HmmerHitTBL" THEN TBLTypes ELSE DOMTypes
FieldsOf(cls) == IF cls = "HmmerHitTBL" THEN TBLFields ELSE DOMFields

accessionAsReported(values, i) == values[i]

\* self.query_accession = values[i]; if it is '-': self.query_name, which
\* both classes read from values[i - 1]
accessionOrName(values, i) ==
    IF values[i] = << "-" >> THEN values[i - 1] ELSE values[i]

convert(type, values, i) ==
    IF type = "float" THEN parseFloat(values[i])
    ELSE IF type = "int" THEN parseInt(values[i])
    ELSE IF type = "acc" THEN [ ok |-> TRUE, val |-> accessionOrName(values, i) ]
    ELSE [ ok |-> TRUE, val |-> values[i] ]

\* What a call gives: an object (kind is its class, attrs its attributes in
\* the order of AttrsOf, empty when __init__ set none), None, or the
\* exception that reached the caller.
Outcome(kind) == [ kind |-> kind, attrs |-> << >> ]

IsHit(r) == r.kind \in { "HmmerHitTBL", "HmmerHitDOM" }

\* __init__: with the right number of values every attribute is set (a
\* float() or int() that fails raises ValueError); with any other number
\* the if has no else, and the object is left without attributes.
NewHit(cls, values) ==
    IF Len(values) = FieldsOf(cls)
      THEN LET conv == [ i \in 1..FieldsOf(cls) |->
                           convert(TypesOf(cls)[i], values, i) ]
           IN IF \A i \in 1..FieldsOf(cls) : conv[i].ok
                THEN [ kind |-> cls,
                       attrs |-> [ i \in 1..FieldsOf(cls) |-> conv[i].val ] ]
                ELSE Outcome("ValueError")
      ELSE Outcome(cls)

AttrIndex(cls, name) ==
    CHOOSE i \in 1..Len(AttrsOf(cls)) : AttrsOf(cls)[i] = name

HasAttr(r, name) == IsHit(r) /\ AttrIndex(r.kind, name) \in DOMAIN r.attrs

Attr(r, name) == r.attrs[AttrIndex(r.kind, name)]

\* str() of one attribute, as __str__ prints it
attrStr(type, v) ==
    IF type = "float" THEN floatStr(v)
    ELSE IF type = "int" THEN intStr(v)
    ELSE v

\* __str__: the attributes joined by tabs; an object without attributes
\* raises AttributeError
hitStr(r) ==
    IF Len(r.attrs) = FieldsOf(r.kind)
      THEN [ kind |-> "str",
             text |-> join(<< "\t" >>,
                        [ i \in 1..FieldsOf(r.kind) |->
                            attrStr(TypesOf(r.kind)[i], r.attrs[i]) ]) ]
      ELSE [ kind |-> "AttributeError", text |-> << >> ]

---------------------------------------------------------------------------
(* HMMERParser *)

TBLMinFields == 19
DOMMinFields == 23
TBLDiscrete == 18
DOMDiscrete == 22

MinFieldsOf(mode) == IF mode = "tblout" THEN TBLMinFields ELSE DOMMinFields
DiscreteOf(mode) == IF mode = "tblout" THEN TBLDiscrete ELSE DOMDiscrete
ClassOf(mode) == IF mode = "tblout" THEN "HmmerHitTBL" ELSE "HmmerHitDOM"

\* handle.readline() at line p of the file h: the line and its line break,
\* or the empty string at the end of the file
readline(h, p) ==
    IF p <= Len(h) THEN [ line |-> h[p] \o << "\n" >>, pos |-> p + 1 ]
    ELSE [ line |-> << >>, pos |-> p ]

isCommentNever(line) == FALSE

\* line[0] != '#': false for a comment line
isComment(line) == line[1] = "#"

refineFirstWord(dMatch, n) == SubSeq(dMatch, 1, n + 1)

\* dMatch[0:n] + [" ".join(dMatch[n:])]
refine(dMatch, n) ==
    SubSeq(dMatch, 1, n)
        \o << join(<< " " >>, SubSeq(dMatch, n + 1, Len(dMatch))) >>

\* readHitsTBL / readHitsDOM from line p of h: the outcome, the position
\* of the handle afterwards, and the line that ended the call (0: the end
\* of the file).  line[0] of an empty line raises IndexError before
\* len(line) != 0 is looked at, and the handler returns {}.
RECURSIVE readHits(_, _, _)
readHits(mode, h, p) ==
    LET rd == readline(h, p)
        line == rstrip(rd.line)
        at == IF p <= Len(h) THEN p ELSE 0
    IN IF line = << >>
         THEN [ hit |-> Outcome("{}"), pos |-> rd.pos, stop |-> at ]
       ELSE IF isComment(line)
         THEN readHits(mode, h, rd.pos)
       ELSE LET dMatch == re_split(rstrip(line)) IN
            IF Len(dMatch) < MinFieldsOf(mode)
              THEN [ hit |-> Outcome("FormatError"), pos |-> rd.pos,
                     stop |-> at ]
              ELSE [ hit |-> NewHit(ClassOf(mode),
                                    refine(dMatch, DiscreteOf(mode))),
                     pos |-> rd.pos, stop |-> at ]

nextRewinds(mode, h, p) ==
    LET r == readHits(mode, h, p) IN
    [ hit |-> IF r.hit.kind = "{}" THEN Outcome("None") ELSE r.hit,
      pos |-> p, stop |-> r.stop ]

\* next(): None for {}, else the hit; exceptions pass through
next(mode, h, p) ==
    LET r == readHits(mode, h, p) IN
    IF r.hit.kind = "{}" THEN [ r EXCEPT !.hit = Outcome("None") ] ELSE r

---------------------------------------------------------------------------
(* The files the parser is run on *)

Dash == << "-" >>
F(d) == << d, ".", "0" >>
Desc == << << "d", "e", "s", "c" >>, << "w", "o", "r", "d", "s" >>,
           << "h", "e", "r", "e" >> >>

\* a tblout line: 4 names, 7 floats, 7 ints, 3 words of description
TBLTokens(qacc, ft, it) ==
    << << "A" >>, Dash, << "B" >>, qacc,
       ft, F("2"), F("3"), F("4"), F("5"), F("6"), F("1"),
       it, << "8" >>, << "9" >>, << "1", "0" >>, << "1", "1" >>,
       << "1", "2" >>, << "1", "3" >> >> \o Desc

\* a domtblout line, in the order of DOMTypes
DOMTokens(qacc, ft, it) ==
    << << "A" >>, Dash, it, << "B" >>, qacc, << "4", "0" >>,
       ft, F("2"), F("3"), << "1" >>, << "2" >>,
       F("4"), F("5"), F("6"), F("1"),
       << "7" >>, << "8" >>, << "9" >>, << "1", "0" >>, << "1", "1" >>,
       << "1", "2" >>, F("1") >> \o Desc

TokensOf(mode, qacc, ft, it) ==
    IF mode = "tblout" THEN TBLTokens(qacc, ft, it) ELSE DOMTokens(qacc, ft, it)

BaseTokens(mode) == TokensOf(mode, Dash, F("1"), << "7" >>)

\* the first k tokens, after lead, with sep between them
DataLine(lead, sep, toks, k) == lead \o join(sep, SubSeq(toks, 1, k))

CommentLine == << "#", " ", "h", "e", "a", "d", "e", "r" >>
BlankLine == << >>
SpaceLine == << " ", "\t" >>

\* " 1 2 3 ...": one token fewer than the minimum, after a space
NumbersLine(mode) ==
    << " " >> \o join(<< " " >>, [ i \in 1..(MinFieldsOf(mode) - 1) |-> natStr(i) ])

\* 'A - B - 1.0 2.0 3.0 4.0 5.0 6.0 7 8 9 10 11 12 13 desc words here'
SixFloatsTokens ==
    << << "A" >>, Dash, << "B" >>, Dash,
       F("1"), F("2"), F("3"), F("4"), F("5"), F("6"),
       << "7" >>, << "8" >>, << "9" >>, << "1", "0" >>, << "1", "1" >>,
       << "1", "2" >>, << "1", "3" >> >> \o Desc

SixFloatsLine == join(<< " " >>, SixFloatsTokens)

\* 'A - B - 1.0 2.0 3.0 4.0 5.0 6.0 1.0 7 8 9 10 11 12 13 desc words here'
SevenFloatsLine == join(<< " " >>, BaseTokens("tblout"))

LineSet(mode) ==
    LET min == MinFieldsOf(mode)
        base == BaseTokens(mode)
    IN { CommentLine, BlankLine, SpaceLine, NumbersLine(mode) }
       \cup { DataLine(<< >>, << " " >>, base, k) : k \in { min - 1, min, min + 2 } }
       \cup { DataLine(<< " " >>, << " " >>, base, min - 1) }
       \cup { DataLine(<< >>, << " ", "\t" >>, base, min + 2) }
       \cup { DataLine(<< >>, << " " >>, toks, min) :
                toks \in { TokensOf(mode, << "P", "F", "1" >>,
                                    << "2", ".", "5", "0" >>, << "7" >>),
                           TokensOf(mode, Dash, << "1" >>, << "0", "7" >>),
                           TokensOf(mode, Dash, << "x" >>, << "7" >>) } }
       \cup (IF mode = "tblout" THEN { SixFloatsLine } ELSE { })

\* the value lists a caller hands to a constructor
ValueLists(cls) ==
    LET toks == IF cls = "HmmerHitTBL" THEN BaseTokens("tblout")
                ELSE BaseTokens("domtblout")
    IN { SubSeq(toks, 1, k) : k \in (FieldsOf(cls) - 1)..(FieldsOf(cls) + 1) }

---------------------------------------------------------------------------
(* HMMERRunner *)

\* checkForHMMER: os.system('hmmsearch -h > /dev/null') exits 0 when the
\* tool is installed; any other exit status raises HMMERError
checkForHMMER(inst) == inst

\* __init__, lines 40-49: self.mode for a mode argument, "" for one that
\* is not understood (HMMMERModeError)
modeOf(arg) ==
    IF arg = "dom" THEN "domtblout"
    ELSE IF arg = "tbl" THEN "tblout"
    ELSE IF arg = "align" THEN "align"
    ELSE IF arg = "fetch" THEN "fetch"
    ELSE ""

\* the mode checks of search, align and fetch
searchAllowed(mode) == ~(mode # "domtblout" /\ mode # "tblout")

alignAllowedAlways(mode) == TRUE

alignAllowed(mode) == ~(mode # "align")

fetchAllowed(mode) == ~(mode # "fetch")

\* what 'hmmfetch db key > fetchFileName' leaves in fetchFileName
hmmfetch(key) ==
    IF key \in DOMAIN ModelDb THEN ModelDb[key] ELSE << >>

ModeArgs == { "dom", "tbl", "align", "fetch", "other" }

\* no runner
RunnerIdle ==
    /\ rmode = "unbuilt"
    /\ cmds = << >>
    /\ rop = "none"
    /\ rerr = "none"

\* HMMERRunner(mode=arg)
NewRunner ==
    /\ Len(cmds) < MaxCmds
    /\ \E arg \in ModeArgs :
         /\ rop' = "new"
         /\ cmds' = Append(cmds, "hmmsearch -h")
         /\ IF ~checkForHMMER(installed)
              THEN rerr' = "HMMERError" /\ rmode' = rmode
            ELSE IF modeOf(arg) = ""
              THEN rerr' = "HMMMERModeError" /\ rmode' = rmode
            ELSE rerr' = "ok" /\ rmode' = modeOf(arg)

\* runner.search(db, query, tableOut, hmmerOut)
Search ==
    /\ Len(cmds) < MaxCmds
    /\ rmode # "unbuilt"
    /\ rop' = "search"
    /\ rmode' = rmode
    /\ IF searchAllowed(rmode)
         THEN cmds' = Append(cmds, "hmmsearch") /\ rerr' = "ok"
         ELSE cmds' = cmds /\ rerr' = "HMMMERModeError"

\* runner.align(db, query, outputFile)
Align ==
    /\ Len(cmds) < MaxCmds
    /\ rmode # "unbuilt"
    /\ rop' = "align"
    /\ rmode' = rmode
    /\ IF alignAllowed(rmode)
         THEN cmds' = Append(cmds, "hmmalign") /\ rerr' = "ok"
         ELSE cmds' = cmds /\ rerr' = "HMMMERModeError"

\* runner.fetch(db, key, fetchFileName)
Fetch ==
    /\ Len(cmds) < MaxCmds
    /\ rmode # "unbuilt"
    /\ rop' = "fetch"
    /\ rmode' = rmode
    /\ IF fetchAllowed(rmode)
         THEN cmds' = Append(cmds, "hmmfetch") /\ rerr' = "ok"
         ELSE cmds' = cmds /\ rerr' = "HMMMERModeError"

---------------------------------------------------------------------------
(* The parser's variables while only the extractor runs *)

Nothing == [ kind |-> "nothing", attrs |-> << >> ]
NotPrinted == [ kind |-> "nothing", text |-> << >> ]

\* no parser
ParserIdle ==
    /\ pmode = "tblout"
    /\ handle = << >>
    /\ pos = 1
    /\ prevPos = 1
    /\ stopLine = 0
    /\ ncalls = 0
    /\ pop = "idle"
    /\ cvalues = << >>
    /\ hit = Nothing
    /\ printed = NotPrinted

---------------------------------------------------------------------------
(* HMMERModelExtractor.extract *)

Workers == 1..totalThreads

SeqsUpTo(S, n) == UNION { [1..k -> S] : k \in 0..n }

\* extract(hmmModelFile, modelAccIds, ouputModelFile, bReportProgress) is
\* called.  Without bReportProgress the level is never read (lines 102, 154
\* and 165 test bReportProgress first).
ExtractInit ==
    /\ ParserIdle
    /\ RunnerIdle
    /\ installed \in BOOLEAN
    /\ modelAccIds \in SeqsUpTo(ModelIds, MaxModels)
    /\ totalThreads \in 0..MaxThreads
    /\ bReportProgress \in BOOLEAN
    /\ level \in (IF bReportProgress THEN Levels ELSE { INFO })
    /\ mainPc = "call"
    /\ mi = 1
    /\ workerQueue = << >>
    /\ writerQueue = << >>
    /\ calcProc = [ w \in 1..totalThreads |-> "unstarted" ]
    /\ cur = [ w \in 1..totalThreads |-> Sentinel ]
    /\ writeProc = "unstarted"
    /\ wcur = Sentinel
    /\ numModelsExtracted = 0
    /\ tmp = [ f \in 1..Len(modelAccIds) |-> Absent ]
    /\ outFile \in OldContents
    /\ stdout = << >>
    /\ logged = 0

TasksSharedPath(ids) == [ i \in 1..Len(ids) |-> << ids[i], 1 >> ]

\* lines 102-117: the log record, the two queues, the tasks (each with a
\* path of its own, from uuid4), the sentinels
Tasks(ids) == [ i \in 1..Len(ids) |-> << ids[i], i >> ]

SentinelsOneShort(n) == [ i \in 1..(n - 1) |-> Sentinel ]

SentinelsOneMore(n) == [ i \in 1..(n + 1) |-> Sentinel ]

Sentinels(n) == [ i \in 1..n |-> Sentinel ]

BuildQueues ==
    /\ mainPc = "call"
    /\ logged' = IF bReportProgress /\ level <= INFO THEN logged + 1 ELSE logged
    /\ workerQueue' = Tasks(modelAccIds) \o Sentinels(totalThreads)
    /\ writerQueue' = << >>
    /\ mainPc' = "startWriter"
    /\ UNCHANGED << installed, modelAccIds, totalThreads, bReportProgress,
                    level, mi, calcProc, cur, writeProc, wcur,
                    numModelsExtracted, tmp, outFile, stdout >>

\* line 119: writeProc.start()
StartWriter ==
    /\ mainPc = "startWriter"
    /\ writeProc' = "open"
    /\ mi' = 1
    /\ mainPc' = "startWorkers"
    /\ UNCHANGED << installed, modelAccIds, totalThreads, bReportProgress,
                    level, workerQueue, writerQueue, calcProc, cur, wcur,
                    numModelsExtracted, tmp, outFile, stdout, logged >>

\* lines 121-122: for p in calcProc: p.start()
StartWorker ==
    /\ mainPc = "startWorkers"
    /\ IF mi <= totalThreads
         THEN /\ calcProc' = [ calcProc EXCEPT ![mi] = "init" ]
              /\ mi' = mi + 1
              /\ mainPc' = mainPc
         ELSE /\ calcProc' = calcProc
              /\ mi' = 1
              /\ mainPc' = "joinWorkers"
    /\ UNCHANGED << installed, modelAccIds, totalThreads, bReportProgress,
                    level, workerQueue, writerQueue, cur, writeProc, wcur,
                    numModelsExtracted, tmp, outFile, stdout, logged >>

EndedNormally(pc) == pc = "done"

EndedAlways(pc) == TRUE

\* join returns when the process has exited, normally or not
Ended(pc) == pc \in { "done", "crashed" }

\* lines 124-125: for p in calcProc: p.join()
JoinWorker ==
    /\ mainPc = "joinWorkers"
    /\ IF mi <= totalThreads
         THEN /\ Ended(calcProc[mi])
              /\ mi' = mi + 1
              /\ mainPc' = mainPc
         ELSE /\ mi' = mi
              /\ mainPc' = "putSentinel"
    /\ UNCHANGED << installed, modelAccIds, totalThreads, bReportProgress,
                    level, workerQueue, writerQueue, calcProc, cur,
                    writeProc, wcur, numModelsExtracted, tmp, outFile,
                    stdout, logged >>

\* line 127: writerQueue.put((None, None))
PutSentinel ==
    /\ mainPc = "putSentinel"
    /\ writerQueue' = Append(writerQueue, Sentinel)
    /\ mainPc' = "joinWriter"
    /\ UNCHANGED << installed, modelAccIds, totalThreads, bReportProgress,
                    level, mi, workerQueue, calcProc, cur, writeProc, wcur,
                    numModelsExtracted, tmp, outFile, stdout, logged >>

\* line 128: writeProc.join(), then extract returns
JoinWriter ==
    /\ mainPc = "joinWriter"
    /\ Ended(writeProc)
    /\ mainPc' = "returned"
    /\ UNCHANGED << installed, modelAccIds, totalThreads, bReportProgress,
                    level, mi, workerQueue, writerQueue, calcProc, cur,
                    writeProc, wcur, numModelsExtracted, tmp, outFile,
                    stdout, logged >>

---------------------------------------------------------------------------
(* HMMERModelExtractor.__extractModel: one worker process *)

\* line 132: HF = HMMERRunner(mode='fetch'); an HMMERError ends the process
WorkerInit(w) ==
    /\ calcProc[w] = "init"
    /\ calcProc' = [ calcProc EXCEPT ![w] =
                       IF checkForHMMER(installed) THEN "get" ELSE "crashed" ]
    /\ UNCHANGED << installed, modelAccIds, totalThreads, bReportProgress,
                    level, mainPc, mi, workerQueue, writerQueue, cur,
                    writeProc, wcur, numModelsExtracted, tmp, outFile,
                    stdout, logged >>

\* lines 135-137: queueIn.get(block=True), break on the sentinel
WorkerGet(w) ==
    /\ calcProc[w] = "get"
    /\ workerQueue # << >>
    /\ workerQueue' = Tail(workerQueue)
    /\ cur' = [ cur EXCEPT ![w] = Head(workerQueue) ]
    /\ calcProc' = [ calcProc EXCEPT ![w] =
                       IF Head(workerQueue)[1] = None THEN "done" ELSE "fetch" ]
    /\ UNCHANGED << installed, modelAccIds, totalThreads, bReportProgress,
                    level, mainPc, mi, writerQueue, writeProc, wcur,
                    numModelsExtracted, tmp, outFile, stdout, logged >>

WorkerFetchChecked(w) ==
    /\ calcProc[w] = "fetch"
    /\ IF fetchAllowed(modeOf("fetch")) /\ cur[w][1] \in DOMAIN ModelDb
         THEN /\ tmp' = [ tmp EXCEPT ![cur[w][2]] = File(hmmfetch(cur[w][1])) ]
              /\ calcProc' = [ calcProc EXCEPT ![w] = "put" ]
         ELSE /\ tmp' = tmp
              /\ calcProc' = [ calcProc EXCEPT ![w] = "crashed" ]
    /\ UNCHANGED << installed, modelAccIds, totalThreads, bReportProgress,
                    level, mainPc, mi, workerQueue, writerQueue, cur,
                    writeProc, wcur, numModelsExtracted, outFile, stdout,
                    logged >>

\* line 139: HF.fetch(hmmModelFile, modelAcc, fetchFilename); the exit
\* status of hmmfetch is not looked at (line 80)
WorkerFetch(w) ==
    /\ calcProc[w] = "fetch"
    /\ IF fetchAllowed(modeOf("fetch"))
         THEN /\ tmp' = [ tmp EXCEPT ![cur[w][2]] = File(hmmfetch(cur[w][1])) ]
              /\ calcProc' = [ calcProc EXCEPT ![w] = "put" ]
         ELSE /\ tmp' = tmp
              /\ calcProc' = [ calcProc EXCEPT ![w] = "crashed" ]
    /\ UNCHANGED << installed, modelAccIds, totalThreads, bReportProgress,
                    level, mainPc, mi, workerQueue, writerQueue, cur,
                    writeProc, wcur, numModelsExtracted, outFile, stdout,
                    logged >>

\* line 141: queueOut.put((modelAcc, fetchFilename)); the loop variables
\* are not read again before the next get assigns them
WorkerPut(w) ==
    /\ calcProc[w] = "put"
    /\ writerQueue' = Append(writerQueue, cur[w])
    /\ cur' = [ cur EXCEPT ![w] = Sentinel ]
    /\ calcProc' = [ calcProc EXCEPT ![w] = "get" ]
    /\ UNCHANGED << installed, modelAccIds, totalThreads, bReportProgress,
                    level, mainPc, mi, workerQueue, writeProc, wcur,
                    numModelsExtracted, tmp, outFile, stdout, logged >>

---------------------------------------------------------------------------
(* HMMERModelExtractor.__reportModelExtractionProgress: the writer *)

ReportingBelowInfo == bReportProgress /\ level < INFO

\* lines 154 and 165
Reporting == bReportProgress /\ level <= INFO

\* lines 146-148: fout = open(ouputModelFile, 'w'); numModelsExtracted = 0
openAppending(old) == old

openForWriting(old) == << >>

WriterOpen ==
    /\ writeProc = "open"
    /\ outFile' = openForWriting(outFile)
    /\ numModelsExtracted' = 0
    /\ writeProc' = "get"
    /\ UNCHANGED << installed, modelAccIds, totalThreads, bReportProgress,
                    level, mainPc, mi, workerQueue, writerQueue, calcProc,
                    cur, wcur, tmp, stdout, logged >>

\* lines 150-158: queueIn.get(block=True), break on the sentinel, else the
\* progress line
WriterGet ==
    /\ writeProc = "get"
    /\ writerQueue # << >>
    /\ writerQueue' = Tail(writerQueue)
    /\ wcur' = Head(writerQueue)
    /\ IF Head(writerQueue)[1] = None
         THEN /\ writeProc' = "finish"
              /\ UNCHANGED << numModelsExtracted, stdout >>
         ELSE /\ writeProc' = "copy"
              /\ IF Reporting
                   THEN /\ numModelsExtracted' = numModelsExtracted + 1
                        /\ stdout' = Append(stdout,
                              << numModelsExtracted + 1, Len(modelAccIds) >>)
                   ELSE UNCHANGED << numModelsExtracted, stdout >>
    /\ UNCHANGED << installed, modelAccIds, totalThreads, bReportProgress,
                    level, mainPc, mi, workerQueue, calcProc, cur, tmp,
                    outFile, logged >>

WriterCopyAtFront ==
    /\ writeProc = "copy"
    /\ IF tmp[wcur[2]] = Absent
         THEN /\ writeProc' = "crashed"
              /\ outFile' = outFile
         ELSE /\ writeProc' = "remove"
              /\ outFile' = tmp[wcur[2]].lines \o outFile
    /\ UNCHANGED << installed, modelAccIds, totalThreads, bReportProgress,
                    level, mainPc, mi, workerQueue, writerQueue, calcProc,
                    cur, wcur, numModelsExtracted, tmp, stdout, logged >>

\* lines 160-161: for line in open(fetchFilename): fout.write(line)
WriterCopy ==
    /\ writeProc = "copy"
    /\ IF tmp[wcur[2]] = Absent
         THEN /\ writeProc' = "crashed"
              /\ outFile' = outFile
         ELSE /\ writeProc' = "remove"
              /\ outFile' = outFile \o tmp[wcur[2]].lines
    /\ UNCHANGED << installed, modelAccIds, totalThreads, bReportProgress,
                    level, mainPc, mi, workerQueue, writerQueue, calcProc,
                    cur, wcur, numModelsExtracted, tmp, stdout, logged >>

WriterRemoveKeepsFile ==
    /\ writeProc = "remove"
    /\ wcur' = Sentinel
    /\ writeProc' = "get"
    /\ UNCHANGED << installed, modelAccIds, totalThreads, bReportProgress,
                    level, mainPc, mi, workerQueue, writerQueue, calcProc,
                    cur, numModelsExtracted, tmp, outFile, stdout, logged >>

\* line 163: os.remove(fetchFilename); the loop variables are not read
\* again before the next get assigns them
WriterRemove ==
    /\ writeProc = "remove"
    /\ tmp' = [ tmp EXCEPT ![wcur[2]] = Absent ]
    /\ wcur' = Sentinel
    /\ writeProc' = "get"
    /\ UNCHANGED << installed, modelAccIds, totalThreads, bReportProgress,
                    level, mainPc, mi, workerQueue, writerQueue, calcProc,
                    cur, numModelsExtracted, outFile, stdout, logged >>

\* lines 165-168: the final line break, fout.close()
WriterFinish ==
    /\ writeProc = "finish"
    /\ stdout' = IF Reporting THEN Append(stdout, "\n") ELSE stdout
    /\ writeProc' = "done"
    /\ UNCHANGED << installed, modelAccIds, totalThreads, bReportProgress,
                    level, mainPc, mi, workerQueue, writerQueue, calcProc,
                    cur, wcur, numModelsExtracted, tmp, outFile, logged >>

---------------------------------------------------------------------------

(* The processes, for the fairness of the operating system's scheduler *)

Main == BuildQueues \/ StartWriter \/ StartWorker \/ JoinWorker
          \/ PutSentinel \/ JoinWriter

Worker(w) ==
    /\ w \in DOMAIN calcProc
    /\ (WorkerInit(w) \/ WorkerGet(w) \/ WorkerFetch(w) \/ WorkerPut(w))

Writer == WriterOpen \/ WriterGet \/ WriterCopy \/ WriterRemove
            \/ WriterFinish

ExtractNext ==
    \/ BuildQueues /\ UNCHANGED << pvars, rvars >>
    \/ StartWriter /\ UNCHANGED << pvars, rvars >>
    \/ StartWorker /\ UNCHANGED << pvars, rvars >>
    \/ JoinWorker /\ UNCHANGED << pvars, rvars >>
    \/ PutSentinel /\ UNCHANGED << pvars, rvars >>
    \/ JoinWriter /\ UNCHANGED << pvars, rvars >>
    \/ \E w \in Workers : WorkerInit(w) /\ UNCHANGED << pvars, rvars >>
    \/ \E w \in Workers : WorkerGet(w) /\ UNCHANGED << pvars, rvars >>
    \/ \E w \in Workers : WorkerFetch(w) /\ UNCHANGED << pvars, rvars >>
    \/ \E w \in Workers : WorkerPut(w) /\ UNCHANGED << pvars, rvars >>
    \/ WriterOpen /\ UNCHANGED << pvars, rvars >>
    \/ WriterGet /\ UNCHANGED << pvars, rvars >>
    \/ WriterCopy /\ UNCHANGED << pvars, rvars >>
    \/ WriterRemove /\ UNCHANGED << pvars, rvars >>
    \/ WriterFinish /\ UNCHANGED << pvars, rvars >>



---------------------------------------------------------------------------
(* The parser and its caller *)

\* the extractor, before extract is called
ExtractIdle ==
    /\ modelAccIds = << >>
    /\ totalThreads = 0
    /\ bReportProgress = FALSE
    /\ level = INFO
    /\ mainPc = "idle"
    /\ mi = 1
    /\ workerQueue = << >>
    /\ writerQueue = << >>
    /\ calcProc = << >>
    /\ cur = << >>
    /\ writeProc = "unstarted"
    /\ wcur = Sentinel
    /\ numModelsExtracted = 0
    /\ tmp = << >>
    /\ outFile = << >>
    /\ stdout = << >>
    /\ logged = 0

\* HMMERParser(fileHandle, mode) with mode 'tbl' or 'dom'
ParserInit ==
    /\ ExtractIdle /\ installed = TRUE
    /\ RunnerIdle
    /\ pmode \in { "tblout", "domtblout" }
    /\ handle \in SeqsUpTo(LineSet(pmode), MaxLines)
    /\ pos = 1
    /\ prevPos = 1
    /\ stopLine = 0
    /\ ncalls = 0
    /\ pop = "new"
    /\ cvalues = << >>
    /\ hit = Nothing
    /\ printed = NotPrinted

\* hit = parser.next()
CallNext ==
    /\ ncalls < MaxCalls
    /\ \E r \in { next(pmode, handle, pos) } :
         /\ hit' = r.hit
         /\ pos' = r.pos
         /\ stopLine' = r.stop
    /\ prevPos' = pos
    /\ ncalls' = ncalls + 1
    /\ pop' = "next"
    /\ cvalues' = << >>
    /\ printed' = NotPrinted
    /\ UNCHANGED << pmode, handle >>

\* hit = HmmerHitTBL(vs) or HmmerHitDOM(vs).  The constructors read nothing
\* of the parser; the caller builds its records before it reads the file.
Construct ==
    /\ pop = "new"
    /\ \E cls \in { "HmmerHitTBL", "HmmerHitDOM" } :
         \E vs \in ValueLists(cls) :
            /\ hit' = NewHit(cls, vs)
            /\ cvalues' = vs
    /\ pop' = "construct"
    /\ printed' = NotPrinted
    /\ UNCHANGED << pmode, handle, pos, prevPos, stopLine, ncalls >>

\* str(hit)
Serialize ==
    /\ IsHit(hit)
    /\ pop # "str"
    /\ printed' = hitStr(hit)
    /\ pop' = "str"
    /\ UNCHANGED << pmode, handle, pos, prevPos, stopLine, ncalls, cvalues,
                    hit >>

ParserNext ==
    \/ CallNext /\ UNCHANGED << evars, rvars >>
    \/ Construct /\ UNCHANGED << evars, rvars >>
    \/ Serialize /\ UNCHANGED << evars, rvars >>

ParserSpec == ParserInit /\ [][ParserNext]_vars

---------------------------------------------------------------------------
(* The runner and its caller *)

RunnerInit ==
    /\ ExtractIdle /\ installed \in BOOLEAN
    /\ ParserIdle
    /\ RunnerIdle

RunnerNext ==
    \/ NewRunner /\ UNCHANGED << evars, pvars >>
    \/ Search /\ UNCHANGED << evars, pvars >>
    \/ Align /\ UNCHANGED << evars, pvars >>
    \/ Fetch /\ UNCHANGED << evars, pvars >>

RunnerSpec == RunnerInit /\ [][RunnerNext]_vars

Spec == ExtractInit /\ [][ExtractNext]_vars

\* Progress reporting decides nothing but what is printed: termination is
\* checked with reporting on.
FairInit == ExtractInit /\ bReportProgress /\ level = INFO

\* Every runnable process is scheduled again and again.
FairSpec ==
    /\ FairInit
    /\ [][ExtractNext]_vars
    /\ WF_vars(Main /\ UNCHANGED << pvars, rvars >>)
    /\ WF_vars(Writer /\ UNCHANGED << pvars, rvars >>)
    /\ \A w \in 1..MaxThreads : WF_vars(Worker(w) /\ UNCHANGED << pvars, rvars >>)

---------------------------------------------------------------------------
(* Workers that crash *)

\* lines 134-141: an unhandled exception in the loop of a worker ends its
\* process, with the task it holds neither fetched nor reported
WorkerCrash(w) ==
    /\ calcProc[w] \in { "get", "fetch", "put" }
    /\ calcProc' = [ calcProc EXCEPT ![w] = "crashed" ]
    /\ UNCHANGED << installed, modelAccIds, totalThreads, bReportProgress,
                    level, mainPc, mi, workerQueue, writerQueue, cur,
                    writeProc, wcur, numModelsExtracted, tmp, outFile,
                    stdout, logged >>

CrashNext ==
    \/ ExtractNext
    \/ \E w \in Workers : WorkerCrash(w) /\ UNCHANGED << pvars, rvars >>

\* The scheduler is fair to the processes; a crash may come or not.
CrashSpec ==
    /\ FairInit
    /\ [][CrashNext]_vars
    /\ WF_vars(Main /\ UNCHANGED << pvars, rvars >>)
    /\ WF_vars(Writer /\ UNCHANGED << pvars, rvars >>)
    /\ \A w \in 1..MaxThreads : WF_vars(Worker(w) /\ UNCHANGED << pvars, rvars >>)

---------------------------------------------------------------------------
(* Claims about extract *)

Returned == mainPc = "returned"

NoCrash ==
    /\ \A w \in Workers : calcProc[w] # "crashed"
    /\ writeProc # "crashed"

RECURSIVE Concat(_)
Concat(ss) == IF ss = << >> THEN << >> ELSE Head(ss) \o Concat(Tail(ss))

Perms(n) == { p \in [1..n -> 1..n] : \A i, j \in 1..n : p[i] = p[j] => i = j }

\* the fetch results of the submitted tasks, concatenated in the order p
ResultsInOrder(p) ==
    Concat([ i \in 1..Len(modelAccIds) |-> hmmfetch(modelAccIds[p[i]]) ])

IsPrefix(s, t) == Len(s) <= Len(t) /\ SubSeq(t, 1, Len(s)) = s

IsSuffix(s, t) ==
    /\ Len(s) <= Len(t)
    /\ SubSeq(t, Len(t) - Len(s) + 1, Len(t)) = s

\* C1: once extract has returned from a run with T >= 1 workers and no
\* crash, the output file is the concatenation, in some order, of the fetch
\* result of every submitted task, each exactly once, and nothing else.
C1_OutputHoldsEveryResultOnce ==
    (Returned /\ totalThreads >= 1 /\ NoCrash)
        => \E p \in Perms(Len(modelAccIds)) : outFile = ResultsInOrder(p)

C1_Witness ==
    /\ Returned /\ NoCrash
    /\ totalThreads = 2
    /\ modelAccIds = << "PF00001", "PF00002" >>
    /\ outFile = << ">MODEL:PF00002", ">MODEL:PF00001" >>

AllDone ==
    /\ Returned
    /\ \A w \in Workers : calcProc[w] = "done" /\ cur[w][1] = None
    /\ writeProc = "done" /\ wcur[1] = None

\* C2: when no worker crashes, under fair scheduling every worker pops a
\* stop sentinel and terminates, the writer pops its stop sentinel and
\* terminates, and extract returns, for every N >= 0 and T >= 1.
C2_ExtractTerminates ==
    (installed /\ totalThreads >= 1) => <>AllDone

C2_Witness ==
    /\ AllDone /\ installed
    /\ totalThreads = 2
    /\ Len(modelAccIds) = 2

\* C3: when extract returns no temporary file of its tasks exists, and a
\* temporary file is deleted only by the writer and only after its whole
\* content has been copied to the end of the output file.
C3_NoTempFileLeft ==
    [][ /\ Returned' => \A f \in DOMAIN tmp : tmp'[f] = Absent
        /\ \A f \in DOMAIN tmp :
              (tmp[f] # Absent /\ tmp'[f] = Absent)
                 => /\ writeProc = "remove" /\ wcur[2] = f
                    /\ IsSuffix(tmp[f].lines, outFile) ]_vars

C3_Witness ==
    /\ Returned /\ NoCrash
    /\ Len(modelAccIds) = 2
    /\ Len(outFile) = 2
    /\ \A f \in DOMAIN tmp : tmp[f] = Absent

\* the work queue as extract filled it
FullQueue == Tasks(modelAccIds) \o [ i \in 1..totalThreads |-> Sentinel ]

\* C11: when hmmsearch is absent, so that the check in the constructor of
\* the runner fails, extract does not return normally, and the error comes
\* before any task is taken from the work queue.
C11_ToolAbsentStopsExtract ==
    (~installed /\ totalThreads >= 1)
        => /\ ~Returned
           /\ mainPc # "call" => workerQueue = FullQueue

SomeWorkerCrashed == \E w \in Workers : calcProc[w] = "crashed"

\* C12 as stated: a worker that crashed leaves the writer waiting on the
\* completion queue, and extract does not return.
C12_CrashBlocksExtract == SomeWorkerCrashed => ~Returned

\* C12 as amended: whichever workers crash, and wherever in their loop,
\* nothing is left blocked: join returns for them, extract pushes the
\* writer's stop sentinel and the writer stops.  Until extract has returned
\* some process can take its next step, and every step is one of finitely
\* many (each start, join, get, put, copy and remove happens once).
C12_CrashedRunReturns == Returned \/ ENABLED ExtractNext

\* a worker crashed between its fetch and its push: the temp file stays
C12_Witness ==
    /\ Returned /\ installed /\ SomeWorkerCrashed
    /\ \E f \in DOMAIN tmp : tmp[f] # Absent

\* how many stop sentinels the completion queue has been given
StopsPushed ==
    Cardinality({ i \in 1..Len(writerQueue) : writerQueue[i] = Sentinel })
      + (IF writeProc \in { "finish", "done" } THEN 1 ELSE 0)

\* C13: the writer's stop sentinel is pushed once per call, and only when
\* every worker has terminated; it is the last entry of the completion
\* queue, and the writer has not stopped while an entry waits there.
C13_StopSentinelLast ==
    /\ StopsPushed <= 1
    /\ Returned => StopsPushed = 1
    /\ StopsPushed = 1 =>
          \A w \in Workers : calcProc[w] \in { "done", "crashed" }
    /\ \A i \in 1..Len(writerQueue) :
          writerQueue[i] = Sentinel => i = Len(writerQueue)
    /\ writeProc \in { "finish", "done" } => writerQueue = << >>

\* the sentinel waits behind a completion
C13_Witness ==
    /\ Len(writerQueue) = 2
    /\ writerQueue[1] # Sentinel
    /\ writerQueue[2] = Sentinel

DoneWorkers == { w \in Workers : calcProc[w] = "done" }

\* how many entries have been popped from the work queue
Popped == Len(FullQueue) - Len(workerQueue)

\* C14: the work queue is filled with the N tasks followed by T stop
\* sentinels and is only popped from its head; the sentinels popped are as
\* many as the workers that have stopped, a stopped worker pops nothing
\* more, no two workers hold the same task, and when all T workers have
\* stopped the queue is empty.
C14_OneSentinelPerWorker ==
    /\ [](mainPc # "call" =>
            /\ mainPc = "startWriter" => workerQueue = FullQueue
            /\ IsSuffix(workerQueue, FullQueue)
            /\ Cardinality(DoneWorkers) =
                  (IF Popped > Len(modelAccIds)
                     THEN Popped - Len(modelAccIds) ELSE 0)
            /\ \A w \in DoneWorkers : cur[w] = Sentinel
            /\ \A v, w \in Workers :
                  (v # w /\ cur[v] # Sentinel) => cur[v] # cur[w]
            /\ (totalThreads >= 1 /\ DoneWorkers = Workers)
                  => workerQueue = << >>)
    /\ [][ \A w \in Workers :
             calcProc[w] = "done" =>
                /\ calcProc'[w] = "done"
                /\ workerQueue' # workerQueue
                      => \E v \in Workers \ { w } : calcProc'[v] # calcProc[v] ]_vars

C14_Witness ==
    /\ mainPc = "joinWorkers"
    /\ totalThreads = 2 /\ DoneWorkers = Workers
    /\ Len(modelAccIds) = 2
    /\ workerQueue = << >>

\* the lines of the temp files of the completions in q, in the order of q
LinesOf(q) ==
    Concat([ i \in 1..Len(q) |->
               IF q[i] = Sentinel THEN << >> ELSE tmp[q[i][2]].lines ])

\* what the writer has written, then what it is about to copy, then what
\* waits in the completion queue
Flow ==
    (IF writeProc \in { "unstarted", "open" } THEN << >> ELSE outFile)
      \o (IF writeProc = "copy" THEN tmp[wcur[2]].lines ELSE << >>)
      \o LinesOf(writerQueue)

Identity == [ i \in 1..Len(modelAccIds) |-> i ]

\* C15: the models are in the output file in the order in which their
\* completions were pushed: a push adds its model at the end of what is
\* written and waiting, and no other step changes that sequence; with one
\* worker the order is the submission order.
C15_OutputInCompletionOrder ==
    /\ [][ IF \E w \in Workers :
                /\ calcProc[w] = "put"
                /\ writerQueue' = Append(writerQueue, cur[w])
            THEN \E w \in Workers :
                    /\ calcProc[w] = "put" /\ calcProc'[w] # "put"
                    /\ Flow' = Flow \o tmp[cur[w][2]].lines
            ELSE Flow' = Flow ]_vars
    /\ []((totalThreads = 1 /\ Returned /\ NoCrash)
            => outFile = ResultsInOrder(Identity))

\* two workers, and the output in the reverse of the submission order
C15_Witness ==
    /\ Returned /\ NoCrash
    /\ totalThreads = 2
    /\ modelAccIds = << "PF00002", "PF00001" >>
    /\ outFile = << ">MODEL:PF00001", ">MODEL:PF00002" >>

\* C16 as stated: what the output file held before the call is still at
\* its start when extract returns.
C16_OldContentKept ==
    Returned => \E old \in OldContents : IsPrefix(old, outFile)

WriterHasOpened == writeProc \notin { "unstarted", "open" }

\* C16 as amended: the writer opens the output file for writing, which
\* empties it: until then the file is as it was before the call, from then
\* on it holds no line of its old content, and extract does not return
\* before the writer has opened it.
C16_OldContentDropped ==
    /\ ~WriterHasOpened => outFile \in OldContents
    /\ WriterHasOpened =>
          \A old \in OldContents : \A i \in DOMAIN outFile :
              \A j \in DOMAIN old : outFile[i] # old[j]
    /\ Returned => WriterHasOpened

C16_Witness ==
    /\ Returned
    /\ totalThreads = 1
    /\ modelAccIds = << "PF00001" >>
    /\ outFile = << ">MODEL:PF00001" >>

\* worker w holds the task whose temp file is f
Holds(w, f) == cur[w] # Sentinel /\ cur[w][2] = f

\* C17: only a step of the writer changes the output file; a temp file is
\* written once, by the worker that holds its task and by no step of the
\* writer, and it is read and deleted by the writer alone, when no worker
\* holds its task any more (the fetch is over and the completion pushed).
C17_FilesHaveOneOwner ==
    /\ [][ /\ outFile' # outFile =>
                /\ writeProc \in { "open", "copy" } /\ writeProc' # writeProc
                /\ calcProc' = calcProc /\ cur' = cur
            /\ \A f \in DOMAIN tmp :
                /\ (tmp'[f] # tmp[f] /\ tmp'[f] # Absent) =>
                      /\ tmp[f] = Absent
                      /\ writeProc' = writeProc /\ wcur' = wcur
                      /\ \E w \in Workers :
                            /\ calcProc[w] = "fetch" /\ calcProc'[w] = "put"
                            /\ Holds(w, f)
                            /\ \A v \in Workers \ { w } : ~Holds(v, f)
                /\ (tmp[f] # Absent /\ tmp'[f] = Absent) =>
                      /\ writeProc = "remove" /\ wcur[2] = f
                      /\ calcProc' = calcProc /\ cur' = cur ]_vars
    /\ [](writeProc \in { "copy", "remove" } =>
            /\ tmp[wcur[2]] # Absent
            /\ \A w \in Workers : ~Holds(w, wcur[2]))

\* the writer deletes one temp file while a worker writes another
C17_Witness ==
    /\ writeProc = "remove"
    /\ \E w \in Workers : calcProc[w] = "fetch"

\* the completions in a queue
Waiting(q) == Cardinality({ i \in 1..Len(q) : q[i] # Sentinel })

\* the completions the writer has taken from the completion queue: the
\* tasks that are no longer in the work queue, in a worker's hands or in
\* the completion queue
Handled ==
    Len(modelAccIds) - Waiting(workerQueue)
      - Cardinality({ w \in Workers : cur[w] # Sentinel })
      - Waiting(writerQueue)

\* progress lines 1 of N, 2 of N, ... k of N, and the final line break
ProgressLines(k, done) ==
    [ i \in 1..k |-> << i, Len(modelAccIds) >> ]
      \o (IF done THEN << "\n" >> ELSE << >>)

\* C18: with reporting on and the level at INFO or below it, the console
\* shows one progress line per completion the writer has taken, counting
\* 1, 2, ... and never past N, the last one showing N; the one line break
\* comes when the writer has left its loop, after the last copy.  With
\* reporting off or the level above INFO the console shows nothing.
C18_ProgressCountsCompletions ==
    IF mainPc = "call" THEN stdout = << >>
    ELSE IF bReportProgress /\ level <= INFO
      THEN /\ Handled \in 0..Len(modelAccIds)
           /\ Len(stdout) = Handled + (IF writeProc = "done" THEN 1 ELSE 0)
           /\ stdout = ProgressLines(Handled, writeProc = "done")
           /\ writeProc = "done" => writerQueue = << >>
           /\ (Returned /\ Handled >= 1) => Handled = Len(modelAccIds)
      ELSE stdout = << >>

C18_Witness ==
    /\ Returned /\ installed
    /\ Len(modelAccIds) = 2 /\ totalThreads >= 1
    /\ bReportProgress /\ level = INFO
    /\ stdout = << << 1, 2 >>, << 2, 2 >>, "\n" >>

\* hmmfetch exits nonzero for this id
FetchFails(id) == id \notin DOMAIN ModelDb

\* C19: a fetch that fails stops nothing: the worker goes on to push the
\* completion of the task, with the temp file the shell created, no
\* process crashes or is left blocked, and extract returns with every
\* temp file copied and deleted, the output holding what the fetches wrote.
C19_FailedFetchGoesUnnoticed ==
    /\ [][ \A w \in Workers :
             (calcProc[w] = "fetch" /\ calcProc'[w] # "fetch" /\ FetchFails(cur[w][1]))
                => /\ calcProc'[w] = "put"
                   /\ tmp'[cur[w][2]] = File(<< >>) ]_vars
    /\ [](installed => NoCrash /\ (Returned \/ ENABLED ExtractNext))
    /\ []((Returned /\ installed /\ totalThreads >= 1) =>
             /\ \A f \in DOMAIN tmp : tmp[f] = Absent
             /\ Len(outFile) =
                   Cardinality({ i \in DOMAIN modelAccIds : ~FetchFails(modelAccIds[i]) }))

C19_Witness ==
    /\ Returned /\ installed
    /\ totalThreads = 1
    /\ modelAccIds = << "PF09999", "PF00001" >>
    /\ outFile = << ">MODEL:PF00001" >>

---------------------------------------------------------------------------
(* Claims about the parser and the records *)

IsBlank(l) == \A i \in 1..Len(l) : l[i] \in WS

IsCommentLine(l) == l # << >> /\ l[1] = "#"

IsDataLine(l) == ~IsBlank(l) /\ ~IsCommentLine(l)

\* the whitespace-delimited fields of a line: its runs of other characters
WordStarts(l) ==
    { i \in 1..Len(l) : l[i] \notin WS /\ (i = 1 \/ l[i - 1] \in WS) }

NumFields(l) == Cardinality(WordStarts(l))

WordAt(l, i) ==
    SubSeq(l, i, CHOOSE j \in i..Len(l) :
                    /\ \A m \in i..j : l[m] \notin WS
                    /\ j = Len(l) \/ l[j + 1] \in WS)

Words(l) == LET st == sorted(WordStarts(l)) IN
            [ k \in 1..Len(st) |-> WordAt(l, st[k]) ]

\* the last call was next(), and a line of the file ended it
NextEndedAtLine == pop = "next" /\ stopLine # 0

\* C4: a blank line (empty or only whitespace) never produces a record and
\* never makes next() return None while a data line remains after it.
C4_BlankLinesSkipped ==
    (NextEndedAtLine /\ IsBlank(handle[stopLine]))
        => /\ ~IsHit(hit)
           /\ ~(/\ hit.kind = "None"
                /\ \E i \in (stopLine + 1)..Len(handle) : IsDataLine(handle[i]))

\* the lines from..(to - 1) are comment lines and line to is a data line
CommentsThenData(from, to) ==
    /\ to \in from..Len(handle)
    /\ \A i \in from..(to - 1) : IsCommentLine(handle[i])
    /\ IsDataLine(handle[to])

\* C5: a comment line never produces a record and never ends the
\* iteration: next() reads past the consecutive comment lines and gives
\* what the next data line alone gives.
C5_CommentsSkipped ==
    pop = "next" =>
        /\ stopLine # 0 => ~IsCommentLine(handle[stopLine])
        /\ \A j \in prevPos..Len(handle) :
              CommentsThenData(prevPos, j)
                 => /\ stopLine = j
                    /\ pos = j + 1
                    /\ hit.kind # "None"
                    /\ hit = next(pmode, << handle[j] >>, 1).hit

C5_Witness ==
    /\ pop = "next"
    /\ prevPos = 1
    /\ CommentsThenData(1, 2)
    /\ IsHit(hit)
    /\ stopLine = 2

\* C6: a data line with fewer whitespace-delimited fields than the mode
\* requires makes next() fail with a format error.
C6_ShortLineIsFormatError ==
    (/\ NextEndedAtLine
     /\ IsDataLine(handle[stopLine])
     /\ NumFields(handle[stopLine]) < MinFieldsOf(pmode))
        => hit.kind = "FormatError"

Text_A == << "A" >>
Text_B == << "B" >>
Text_desc_words_here ==
    << "d", "e", "s", "c", " ", "w", "o", "r", "d", "s", " ", "h", "e", "r", "e" >>

\* the record of the scenario: target A, accession defaulted to B, the
\* description words joined by single spaces
IsScenarioRecord(r) ==
    /\ r.kind = "HmmerHitTBL"
    /\ HasAttr(r, "target_description")
    /\ Attr(r, "target_name") = Text_A
    /\ Attr(r, "query_accession") = Text_B
    /\ Attr(r, "target_description") = Text_desc_words_here

\* one record and then no more
YieldsOneScenarioRecord ==
    /\ (pop = "next" /\ ncalls = 1) => IsScenarioRecord(hit)
    /\ (pop = "next" /\ ncalls = 2) => hit.kind = "None"

\* C7 as stated: six numeric tokens before the seven integers
C7_SixFloatsYieldRecord ==
    (pmode = "tblout" /\ handle = << CommentLine, SixFloatsLine >>)
        => YieldsOneScenarioRecord

\* C7 as amended: with seven numeric tokens (the six scores and e-values and
\* exp) before the seven integers the comment line and the data line yield
\* exactly one record, with target_name A, query_accession B and the
\* description words joined by single spaces; with six, the word 'desc' is
\* read as the integer inc and next() fails with ValueError.
C7_SevenFloatsYieldRecord ==
    /\ (pmode = "tblout" /\ handle = << CommentLine, SevenFloatsLine >>)
          => YieldsOneScenarioRecord
    /\ (/\ pmode = "tblout" /\ handle = << CommentLine, SixFloatsLine >>
        /\ pop = "next" /\ ncalls = 1)
          => hit.kind = "ValueError"

C7_Witness ==
    /\ pmode = "tblout" /\ handle = << CommentLine, SevenFloatsLine >>
    /\ pop = "next" /\ ncalls = 1
    /\ IsScenarioRecord(hit)

\* C8: no record object comes from a value list of the wrong length.
C8_WrongLengthFails ==
    (pop = "construct" /\ IsHit(hit)) => Len(cvalues) = FieldsOf(hit.kind)

\* str(hit) was called on the record next() made of a short-form line of
\* exactly 19 fields
RoundTripOfLine ==
    /\ pop = "str" /\ cvalues = << >> /\ stopLine # 0
    /\ pmode = "tblout"
    /\ handle[stopLine][1] \notin WS
    /\ NumFields(handle[stopLine]) = TBLFields

\* C9 as stated: the 18 discrete fields come back token for token.
C9_RoundTripExact ==
    RoundTripOfLine =>
        /\ printed.kind = "str"
        /\ IsPrefix(join(<< "\t" >>, SubSeq(Words(handle[stopLine]), 1, TBLDiscrete))
                      \o << "\t" >>,
                    printed.text)

\* the pieces of s between its tabs
TabFields(s) ==
    LET cuts == sorted({ i \in 1..Len(s) : s[i] = "\t" })
        from == [ k \in 1..(Len(cuts) + 1) |-> IF k = 1 THEN 1 ELSE cuts[k - 1] + 1 ]
        to == [ k \in 1..(Len(cuts) + 1) |->
                  IF k = Len(cuts) + 1 THEN Len(s) ELSE cuts[k] - 1 ]
    IN [ k \in 1..(Len(cuts) + 1) |-> SubSeq(s, from[k], to[k]) ]

\* digits without a needless leading zero
PlainNat(ds) == ds # << >> /\ AllDigits(ds) /\ (Len(ds) = 1 \/ ds[1] # "0")

\* a token that str(int(token)) gives back: 7, -7, 0
CanonInt(tok) ==
    /\ tok # << >> /\ tok[1] # "+"
    /\ PlainNat(Unsigned(tok))
    /\ ~(tok[1] = "-" /\ Unsigned(tok) = << "0" >>)

\* a token that str(float(token)) gives back: 1.0, 2.5, -0.0
CanonFloat(tok) ==
    LET ds == Unsigned(tok)
        pts == PointsOf(ds)
    IN /\ tok # << >> /\ tok[1] # "+"
       /\ Cardinality(pts) = 1
       /\ LET pt == CHOOSE i \in pts : TRUE
              fp == SubSeq(ds, pt + 1, Len(ds))
          IN /\ PlainNat(SubSeq(ds, 1, pt - 1))
             /\ fp # << >> /\ AllDigits(fp)
             /\ (Len(fp) = 1 \/ fp[Len(fp)] # "0")

\* C9 as amended: target name, target accession and query name come back
\* unchanged; the query accession comes back unchanged unless it was '-',
\* and then the query name stands in its place; a numeric field comes back
\* as the canonical text of its value, which is the token exactly when the
\* token was already canonical.
C9_RoundTripCanonical ==
    RoundTripOfLine =>
        /\ printed.kind = "str"
        /\ LET t == Words(handle[stopLine])
               f == TabFields(printed.text)
           IN /\ Len(f) = TBLFields
              /\ \A i \in 1..TBLDiscrete :
                   LET type == TBLTypes[i] IN
                   /\ type = "str" => f[i] = t[i]
                   /\ type = "acc" => f[i] = (IF t[i] = Dash THEN t[i - 1] ELSE t[i])
                   /\ type = "float" =>
                        /\ CanonFloat(f[i])
                        /\ parseFloat(f[i]) = parseFloat(t[i])
                        /\ (f[i] = t[i]) <=> CanonFloat(t[i])
                   /\ type = "int" =>
                        /\ CanonInt(f[i])
                        /\ parseInt(f[i]) = parseInt(t[i])
                        /\ (f[i] = t[i]) <=> CanonInt(t[i])

C9_Witness ==
    /\ RoundTripOfLine
    /\ printed.kind = "str"
    /\ \E i, j \in 1..TBLDiscrete :
          /\ TBLTypes[i] = "float" /\ ~CanonFloat(Words(handle[stopLine])[i])
          /\ TBLTypes[j] = "int" /\ ~CanonInt(Words(handle[stopLine])[j])

\* C20: a call of next() never moves the read position back; a record it
\* returns is the record of one data line at or after the position the
\* call started from, every line it passed over on the way is a comment
\* line, and the position is left just after that line, so that no line
\* yields a second record and the records come in the order of the lines.
\* With no line left, or only comment lines, next() returns None and
\* leaves the position at the end, so every later call returns None again.
C20_RecordsInSourceOrder ==
    pop = "next" =>
        /\ pos >= prevPos
        /\ stopLine # 0 =>
              /\ stopLine \in prevPos..Len(handle)
              /\ pos = stopLine + 1
              /\ \A i \in prevPos..(stopLine - 1) : IsCommentLine(handle[i])
        /\ IsHit(hit) =>
              /\ stopLine # 0
              /\ IsDataLine(handle[stopLine])
              /\ hit = next(pmode, << handle[stopLine] >>, 1).hit
        /\ (\A i \in prevPos..Len(handle) : IsCommentLine(handle[i])) =>
              /\ hit.kind = "None"
              /\ stopLine = 0
              /\ pos = Len(handle) + 1

\* the second call returns the record of the second line, after the first
\* call returned the record of the first
C20_Witness ==
    /\ pop = "next" /\ ncalls = 2
    /\ Len(handle) = 2
    /\ IsHit(next(pmode, << handle[1] >>, 1).hit)
    /\ prevPos = 2 /\ stopLine = 2
    /\ IsHit(hit)

---------------------------------------------------------------------------
(* Claims about the runner *)

\* C10: search, align and fetch on a runner built for another mode raise
\* the mode error and hand nothing to os.system; in a matching mode each
\* hands it exactly one command, its own.
C10_ModeCheckedBeforeCommand ==
    [][ /\ rop' = "search" =>
             IF rmode \in { "domtblout", "tblout" }
               THEN cmds' = Append(cmds, "hmmsearch") /\ rerr' = "ok"
               ELSE cmds' = cmds /\ rerr' = "HMMMERModeError"
        /\ rop' = "align" =>
             IF rmode = "align"
               THEN cmds' = Append(cmds, "hmmalign") /\ rerr' = "ok"
               ELSE cmds' = cmds /\ rerr' = "HMMMERModeError"
        /\ rop' = "fetch" =>
             IF rmode = "fetch"
               THEN cmds' = Append(cmds, "hmmfetch") /\ rerr' = "ok"
               ELSE cmds' = cmds /\ rerr' = "HMMMERModeError" ]_vars

C10_Witness ==
    /\ rmode = "fetch"
    /\ rop = "align"
    /\ rerr = "HMMMERModeError"
    /\ cmds = << "hmmsearch -h" >>

=============================================================================
